---- MODULE Spec2Model ----
(***************************************************************************)
(* A model of precompile-script.py (VkRunner): the line-by-line rewrite of *)
(* a test script in which every shader-bearing section is replaced by a    *)
(* "[<name> binary]" section holding the hex words of the SPIR-V binary an  *)
(* external tool produced for it.                                          *)
(*                                                                         *)
(* Text is modelled character by character: a string is a sequence of      *)
(* one-character strings, a line is a string ending in "\n".  A 32-bit     *)
(* unsigned value is written as its four base-256 digits, most significant *)
(* first, so that all of 0 .. 2^32-1 is covered without overflow.          *)
(***************************************************************************)
EXTENDS Integers, Sequences, FiniteSets, TLC

(***************************************************************************)
(* Bounds of the model.                                                    *)
(***************************************************************************)
\* lines read from one input script
MaxLines == 3
\* 32-bit words after the magic word in a binary given to the encoder
MaxWords == 10

(***************************************************************************)
(* Characters and small string helpers.                                    *)
(***************************************************************************)
\* Python's \s on the characters that occur here
IsSpace(c) == c \in {" ", "\t", "\n"}

\* Python's \d
IsDigit(c) == c \in {"0", "1", "2", "3", "4", "5", "6", "7", "8", "9"}

\* s[i:] with a 1-based i
Drop(s, i) == SubSeq(s, i, Len(s))

\* the first position >= i of s that does not satisfy the class, Len(s)+1 if none
RECURSIVE SkipSpace(_, _)
SkipSpace(s, i) == IF i <= Len(s) /\ IsSpace(s[i]) THEN SkipSpace(s, i + 1) ELSE i

RECURSIVE SkipDigits(_, _)
SkipDigits(s, i) == IF i <= Len(s) /\ IsDigit(s[i]) THEN SkipDigits(s, i + 1) ELSE i

RECURSIVE SkipNotClose(_, _)
SkipNotClose(s, i) == IF i <= Len(s) /\ s[i] # "]" THEN SkipNotClose(s, i + 1) ELSE i

\* str.startswith at a position: s[i:].startswith(p)
HasAt(s, i, p) == i + Len(p) - 1 <= Len(s) /\ SubSeq(s, i, i + Len(p) - 1) = p

\* a suffix test that wants something before the suffix
endswith_NonEmptyPrefix(s, p) ==
    Len(s) > Len(p) /\ SubSeq(s, Len(s) - Len(p) + 1, Len(s)) = p

\* str.endswith
endswith(s, p) == Len(s) >= Len(p) /\ SubSeq(s, Len(s) - Len(p) + 1, Len(s)) = p

\* Python's None, for a string or for an object reference
None == << >>

(***************************************************************************)
(* Module-level constants of the script.                                   *)
(***************************************************************************)
TARGET_ENV == <<"v","u","l","k","a","n","1",".","0">>

vulkan == <<"v","u","l","k","a","n">>

spirv_suffix == <<" ","s","p","i","r","v">>

\* SECTION_RE without its end: ^\[([^]]+)\]
SECTION_RE_Unanchored(line) ==
    IF Len(line) >= 1 /\ line[1] = "["
    THEN LET close == SkipNotClose(line, 2)
         IN  IF close > 2 /\ close <= Len(line)
             THEN SubSeq(line, 2, close - 1)
             ELSE None
    ELSE None

\* SECTION_RE = ^\[([^]]+)\]\s*$ : the match's group(1), or None when the line
\* does not match.  [^]]+ is greedy and cannot cross a "]", so the name ends
\* at the first "]"; what follows must be white space up to the end.
SECTION_RE(line) ==
    IF Len(line) >= 1 /\ line[1] = "["
    THEN LET close == SkipNotClose(line, 2)
         IN  IF close > 2 /\ close <= Len(line)
                /\ SkipSpace(line, close + 1) = Len(line) + 1
             THEN SubSeq(line, 2, close - 1)
             ELSE None
    ELSE None

\* VERSION_RE with the patch group made optional:
\* ^(\s*vulkan\s*\d+\.\d+)(\.\d+\s*)?$
VERSION_RE_OptionalPatch(line) ==
    LET a == SkipSpace(line, 1)
        b == SkipSpace(line, a + Len(vulkan))
        c == SkipDigits(line, b)
        d == SkipDigits(line, c + 1)
        e == SkipDigits(line, d + 1)
        f == SkipSpace(line, e)
    IN  IF /\ HasAt(line, a, vulkan)
           /\ c > b
           /\ HasAt(line, c, <<".">>)
           /\ d > c + 1
           /\ \/ HasAt(line, d, <<".">>) /\ e > d + 1 /\ f = Len(line) + 1
              \/ d = Len(line) + 1
              \/ d = Len(line) /\ line[d] = "\n"
        THEN SubSeq(line, 1, d - 1)
        ELSE None

\* VERSION_RE = ^(\s*vulkan\s*\d+\.\d+)(\.\d+\s*)$ : the match's group(1), or
\* None when the line does not match.  The classes that follow one another
\* are disjoint, so the greedy scan is the only way to match.
VERSION_RE(line) ==
    LET a == SkipSpace(line, 1)
        b == SkipSpace(line, a + Len(vulkan))
        c == SkipDigits(line, b)
        d == SkipDigits(line, c + 1)
        e == SkipDigits(line, d + 1)
        f == SkipSpace(line, e)
    IN  IF /\ HasAt(line, a, vulkan)
           /\ c > b
           /\ HasAt(line, c, <<".">>)
           /\ d > c + 1
           /\ HasAt(line, d, <<".">>)
           /\ e > d + 1
           /\ f = Len(line) + 1
        THEN SubSeq(line, 1, d - 1)
        ELSE None

\* s.lstrip() in place of TRIM_RE.sub: only the leading white space removed
TRIM_RE_sub_Leading(s) == Drop(s, SkipSpace(s, 1))

\* TRIM_RE.sub('', s) with TRIM_RE = \s+ : every white-space character removed
TRIM_RE_sub(s) == SelectSeq(s, LAMBDA c : ~IsSpace(c))

\* the mapping with the tokens of the vertex and fragment stages exchanged
STAGE_MAP_Swapped ==
    (<<"v","e","r","t","e","x"," ","s","h","a","d","e","r">> :> "frag") @@
    (<<"t","e","s","s","e","l","l","a","t","i","o","n"," ","c","o","n","t","r","o","l"," ","s","h","a","d","e","r">> :> "tesc") @@
    (<<"t","e","s","s","e","l","l","a","t","i","o","n"," ","e","v","a","l","u","a","t","i","o","n"," ","s","h","a","d","e","r">> :> "tese") @@
    (<<"g","e","o","m","e","t","r","y"," ","s","h","a","d","e","r">> :> "geom") @@
    (<<"f","r","a","g","m","e","n","t"," ","s","h","a","d","e","r">> :> "vert") @@
    (<<"c","o","m","p","u","t","e"," ","s","h","a","d","e","r">> :> "comp")

\* STAGE_MAP (lines 42-49)
STAGE_MAP ==
    (<<"v","e","r","t","e","x"," ","s","h","a","d","e","r">> :> "vert") @@
    (<<"t","e","s","s","e","l","l","a","t","i","o","n"," ","c","o","n","t","r","o","l"," ","s","h","a","d","e","r">> :> "tesc") @@
    (<<"t","e","s","s","e","l","l","a","t","i","o","n"," ","e","v","a","l","u","a","t","i","o","n"," ","s","h","a","d","e","r">> :> "tese") @@
    (<<"g","e","o","m","e","t","r","y"," ","s","h","a","d","e","r">> :> "geom") @@
    (<<"f","r","a","g","m","e","n","t"," ","s","h","a","d","e","r">> :> "frag") @@
    (<<"c","o","m","p","u","t","e"," ","s","h","a","d","e","r">> :> "comp")

(***************************************************************************)
(* Converter.finish: the external tool, and the hex-word encoding.         *)
(***************************************************************************)
\* unpack that reads every word big-endian, whatever byte_order says
unpack_AlwaysBig(byte_order, b) == b

\* struct.unpack(">I", b)[0] and struct.unpack("<I", b)[0] of four bytes b:
\* the value, as its base-256 digits from the most significant down
unpack(byte_order, b) ==
    IF byte_order = ">I" THEN b ELSE <<b[4], b[3], b[2], b[1]>>

\* the two magic numbers finish compares the first word with
MAGIC_BE == <<7, 35, 2, 3>>       \* 0x07230203

MAGIC_LE == <<3, 2, 35, 7>>       \* 0x03022307

HexDigits == <<"0","1","2","3","4","5","6","7","8","9","a","b","c","d","e","f">>

\* the eight hexadecimal digits of a 32-bit value, leading zeros included
Nibbles(value) ==
    [i \in 1..8 |-> IF i % 2 = 1 THEN HexDigits[(value[(i + 1) \div 2] \div 16) + 1]
                                 ELSE HexDigits[(value[i \div 2] % 16) + 1]]

RECURSIVE SkipZeros(_, _)
SkipZeros(s, i) == IF i < Len(s) /\ s[i] = "0" THEN SkipZeros(s, i + 1) ELSE i

\* "{:x}".format(value): lower-case hexadecimal, no leading zeros, "0" for 0
format_x(value) == LET n == Nibbles(value) IN Drop(n, SkipZeros(n, 1))

\* the size check without the test of the remainder
InvalidSize_NoRemainder(data) == Len(data) < 4

\* line 85: the binary has an invalid size
InvalidSize(data) == Len(data) < 4 \/ Len(data) % 4 # 0

\* the two byte orders exchanged
ByteOrder_Swapped(magic_header) ==
    IF magic_header = MAGIC_BE THEN "<I"
    ELSE IF magic_header = MAGIC_LE THEN ">I"
    ELSE "invalid"

\* lines 92-99: the byte order the magic number selects, "invalid" for neither
ByteOrder(magic_header) ==
    IF magic_header = MAGIC_BE THEN ">I"
    ELSE IF magic_header = MAGIC_LE THEN "<I"
    ELSE "invalid"

\* the test of line 105 without the separating space
MustWrap_NoSpace(hex_str, line_pos) == Len(hex_str) + line_pos > 80

\* line 105: the line is broken before the token
MustWrap(hex_str, line_pos) == Len(hex_str) + line_pos + 1 > 80

\* the loop of lines 101-112 with lines 108-110 printing no space
RECURSIVE HexWords_NoSeparator(_, _, _, _, _)
HexWords_NoSeparator(data, offset, byte_order, line_pos, text) ==
    IF offset > Len(data)
    THEN [line_pos |-> line_pos, text |-> text, raised |-> FALSE]
    ELSE IF offset + 3 > Len(data)
    THEN [line_pos |-> line_pos, text |-> text, raised |-> TRUE]
    ELSE LET value   == unpack(byte_order, SubSeq(data, offset, offset + 3))
             hex_str == format_x(value)
         IN  IF Len(hex_str) + line_pos + 1 > 80
             THEN HexWords_NoSeparator(data, offset + 4, byte_order, Len(hex_str),
                                       text \o <<"\n">> \o hex_str)
             ELSE HexWords_NoSeparator(data, offset + 4, byte_order,
                                       line_pos + 1 + Len(hex_str), text \o hex_str)

\* lines 101-112: the loop over the words from a 1-based offset on; text is
\* what the loop has printed so far and line_pos the loop's column counter.
\* struct.unpack raises struct.error when handed fewer than four bytes.
RECURSIVE HexWords(_, _, _, _, _)
HexWords(data, offset, byte_order, line_pos, text) ==
    IF offset > Len(data)
    THEN [line_pos |-> line_pos, text |-> text, raised |-> FALSE]
    ELSE IF offset + 3 > Len(data)
    THEN [line_pos |-> line_pos, text |-> text, raised |-> TRUE]
    ELSE LET value   == unpack(byte_order, SubSeq(data, offset, offset + 3))
             hex_str == format_x(value)
         IN  IF MustWrap(hex_str, line_pos)
             THEN HexWords(data, offset + 4, byte_order, Len(hex_str),
                           text \o <<"\n">> \o hex_str)
             ELSE IF line_pos > 0
             THEN HexWords(data, offset + 4, byte_order, line_pos + 1 + Len(hex_str),
                           text \o <<" ">> \o hex_str)
             ELSE HexWords(data, offset + 4, byte_order, line_pos + Len(hex_str),
                           text \o hex_str)

\* the end of the body without the print of line 116
HexTail_NoBlank(w) ==
    IF w.line_pos > 0 THEN w.text \o <<"\n">> ELSE w.text

\* lines 114-116: the end of the last line and the blank line after the words
HexTail(w) ==
    (IF w.line_pos > 0 THEN w.text \o <<"\n">> ELSE w.text) \o <<"\n">>

\* subprocess.call in place of check_call: the return code is ignored
check_call_Ignored(returncode) == TRUE

\* subprocess.check_call: raises CalledProcessError on a non-zero return code
check_call(returncode) == returncode = 0

\* one external invocation: the argument vector finish gives check_call (file
\* names left out; source is the content of the section's temporary file, S
\* the stage given with -S, "" when the option is not given) and what the tool
\* answered
Invocation(conv, res) ==
    [binary |-> conv.binary,
     S |-> IF conv.type = "glsl" THEN conv.stage ELSE "",
     target_env |-> conv.version,
     source |-> conv.tempfile,
     returncode |-> res.returncode,
     data |-> res.data]

\* Converter.finish with the external tool answering res = [returncode, data]:
\* how it ends ("return", or what stderr names: the message of line 86 or 97,
\* or the exception raised), what it printed to fout before that, and the
\* temporary files it has not closed
finish(conv, res) ==
    IF ~check_call(res.returncode)
    THEN [outcome |-> "CalledProcessError", text |-> << >>, temps |-> {"tempfile"}]
    ELSE IF InvalidSize(res.data)
    THEN [outcome |-> "invalid size", text |-> << >>, temps |-> {}]
    ELSE IF Len(res.data) < 4
    THEN [outcome |-> "struct.error", text |-> << >>, temps |-> {}]
    ELSE LET magic_header == unpack(">I", SubSeq(res.data, 1, 4))
             byte_order   == ByteOrder(magic_header)
             w            == HexWords(res.data, 1, byte_order, 0, << >>)
         IN  IF byte_order = "invalid"
             THEN [outcome |-> "invalid magic number", text |-> << >>, temps |-> {}]
             ELSE IF w.raised
             THEN [outcome |-> "struct.error", text |-> w.text, temps |-> {}]
             ELSE [outcome |-> "return", text |-> HexTail(w), temps |-> {}]

(***************************************************************************)
(* The inputs the model draws: the lines of a script and what the external *)
(* tool answers.                                                           *)
(***************************************************************************)
FragmentHeader == <<"[","f","r","a","g","m","e","n","t"," ","s","h","a","d","e","r","]","\n">>

VertexSpirvHeader == <<"[","v","e","r","t","e","x"," ","s","h","a","d","e","r"," ","s","p","i","r","v","]"," "," ","\n">>

RequireHeader == <<"[","r","e","q","u","i","r","e","]","\n">>

TestHeader == <<"[","t","e","s","t","]","\n">>

UnknownSpirvHeader == <<"[","r","e","q","u","i","r","e"," ","s","p","i","r","v","]","\n">>

BareSpirvHeader == <<"["," ","s","p","i","r","v","]","\n">>

UnbalancedLine == <<"[","f","r","a","g","m","e","n","t"," ","s","h","a","d","e","r","\n">>

VersionNoPatch == <<"v","u","l","k","a","n"," ","1",".","2","\n">>

VersionPatch == <<"v","u","l","k","a","n"," ","1",".","2",".","0","\n">>

SourceLine == <<"v","o","i","d"," ","m","a","i","n","(",")","{","}","\n">>

Lines ==
    { FragmentHeader, VertexSpirvHeader, RequireHeader, TestHeader,
      UnknownSpirvHeader, BareSpirvHeader, UnbalancedLine,
      VersionNoPatch, VersionPatch, SourceLine }

\* what the external tool may answer in the stream model: a failure that
\* leaves no output or a whole binary, or success with a binary that is empty,
\* of 3 or 5 bytes, of a wrong magic number, or two words in either byte order
WordBytes == <<0, 1, 0, 255>>

StreamData ==
    { << >>, <<7, 35, 2>>, <<7, 35, 2, 3, 0>>, <<1, 2, 3, 4>>,
      MAGIC_BE \o WordBytes, MAGIC_LE \o WordBytes }

ToolResults ==
    { [returncode |-> 1, data |-> d] : d \in { << >>, MAGIC_BE \o WordBytes } }
      \cup { [returncode |-> 0, data |-> d] : d \in StreamData }

(***************************************************************************)
(* The state: the main loop (lines 182-190) and the locals of              *)
(* convert_stream (lines 118-158).                                         *)
(***************************************************************************)
VARIABLES
    pc,            \* "main": between inputs, "loop": in convert_stream, "exit"
    first,         \* no input of args.inputs has been opened yet
    read,          \* the lines the for loop has taken from fin
    section_name,  \* convert_stream's section_name
    converter,     \* convert_stream's converter: None or <<the Converter>>
    version,       \* convert_stream's version
    fout,          \* what has been written to fout, one entry per write
    calls,         \* the external invocations made for the current input
    tempfiles,     \* the temporary files created and not closed
    error,         \* what stderr names when the run is aborted, "" before
    status         \* the exit status, once pc = "exit"

vars == <<pc, first, read, section_name, converter, version, fout,
          calls, tempfiles, error, status>>

\* a converter that takes the default target environment, not the version
\* it is given
Converter_DefaultVersion(type, stage, binary, version_) ==
    [type |-> type, stage |-> stage, binary |-> binary, version |-> TARGET_ENV,
     tempfile |-> << >>]

\* Converter.__init__
Converter(type, stage, binary, version_) ==
    [type |-> type, stage |-> stage, binary |-> binary, version |-> version_,
     tempfile |-> << >>]

\* the header printed without " binary"
BinaryHeader_NoBinary(name) == <<"[">> \o name \o <<"]","\n">>

\* "[{} binary]".format(name) as print writes it
BinaryHeader(name) == <<"[">> \o name \o <<" ","b","i","n","a","r","y","]","\n">>

\* section_name[:-6]
StageName(name) == SubSeq(name, 1, Len(name) - 6)

\* one write to fout
Written(kind, text) == [kind |-> kind, text |-> text]

\* a write that leaves out the lines that declare a version
write_NotVersion(f, line) ==
    IF VERSION_RE(line) # None THEN f ELSE Append(f, [kind |-> "copy", text |-> line])

\* fout.write(line) (lines 146 and 155)
write(f, line) == Append(f, Written("copy", line))

\* the whole text of fout
RECURSIVE Text(_)
Text(f) == IF f = << >> THEN << >> ELSE f[1].text \o Text(Tail(f))

Init ==
    /\ pc = "main"
    /\ first = TRUE
    /\ read = << >>
    /\ section_name = None
    /\ converter = None
    /\ version = TARGET_ENV
    /\ fout = << >>
    /\ calls = << >>
    /\ tempfiles = {}
    /\ error = ""
    /\ status = 0

\* lines 182-190 and 119-121: args.inputs has another input; it and its output
\* are opened and convert_stream starts
main_open ==
    /\ pc = "main"
    /\ pc' = "loop"
    /\ first' = FALSE
    /\ read' = << >>
    /\ section_name' = None
    /\ converter' = None
    /\ version' = TARGET_ENV
    /\ fout' = << >>
    /\ calls' = << >>
    /\ UNCHANGED <<tempfiles, error, status>>

\* the end of the for loop of line 182 (args.inputs holds at least one input,
\* nargs='+'): the script ends with status 0
main_exit ==
    /\ pc = "main"
    /\ ~first
    /\ pc' = "exit"
    /\ status' = 0
    /\ UNCHANGED <<first, read, section_name, converter, version, fout,
                   calls, tempfiles, error>>

\* lines 126-128 and 157-158: "if converter: converter.finish()" with the
\* external tool answering res
FinishActive(res) ==
    IF converter # None
    THEN finish(converter[1], res)
    ELSE [outcome |-> "return", text |-> << >>, temps |-> {}]

\* fout after the finish of lines 126-128 / 157-158
FoutAfter(fin) ==
    IF fin.text # << >> THEN Append(fout, Written("body", fin.text)) ELSE fout

\* the invocations after the finish of lines 126-128 / 157-158
CallsAfter(res) ==
    IF converter # None THEN Append(calls, Invocation(converter[1], res)) ELSE calls

\* lines 124-146: the line read is a section header
convert_stream_section(line, res) ==
    /\ pc = "loop"
    /\ Len(read) < MaxLines
    /\ SECTION_RE(line) # None
    /\ LET md   == SECTION_RE(line)
           fin  == FinishActive(res)
           out1 == FoutAfter(fin)
       IN  /\ read' = Append(read, line)
           /\ calls' = CallsAfter(res)
           /\ first' = first
           /\ version' = version
           /\ IF fin.outcome # "return"
              THEN /\ pc' = "exit"
                   /\ status' = 1
                   /\ error' = fin.outcome
                   /\ fout' = out1
                   /\ tempfiles' = fin.temps
                   /\ UNCHANGED <<section_name, converter>>
              ELSE /\ section_name' = md
                   /\ IF endswith(md, spirv_suffix)
                      THEN IF StageName(md) \in DOMAIN STAGE_MAP
                           THEN /\ converter' = <<Converter("spirv",
                                                   STAGE_MAP[StageName(md)],
                                                   "spirv_as", version)>>
                                /\ fout' = Append(out1, Written("header",
                                                   BinaryHeader(StageName(md))))
                                /\ tempfiles' = {"tempfile"}
                                /\ UNCHANGED <<pc, error, status>>
                           ELSE \* KeyError at line 135
                                /\ converter' = None
                                /\ fout' = out1
                                /\ tempfiles' = {}
                                /\ pc' = "exit"
                                /\ error' = "KeyError"
                                /\ status' = 1
                      ELSE IF md \in DOMAIN STAGE_MAP
                           THEN /\ converter' = <<Converter("glsl", STAGE_MAP[md],
                                                   "glslang", version)>>
                                /\ fout' = Append(out1, Written("header",
                                                   BinaryHeader(md)))
                                /\ tempfiles' = {"tempfile"}
                                /\ UNCHANGED <<pc, error, status>>
                           ELSE /\ converter' = None
                                /\ fout' = write(out1, line)
                                /\ tempfiles' = {}
                                /\ UNCHANGED <<pc, error, status>>

\* a line of the active converter's section that is also written to fout
convert_stream_add_line_Echo(line) ==
    /\ pc = "loop"
    /\ Len(read) < MaxLines
    /\ SECTION_RE(line) = None
    /\ converter # None
    /\ read' = Append(read, line)
    /\ converter' = <<[converter[1] EXCEPT !.tempfile = Append(@, line)]>>
    /\ fout' = Append(fout, [kind |-> "copy", text |-> line])
    /\ UNCHANGED <<pc, first, section_name, version, calls,
                   tempfiles, error, status>>

\* lines 147-148: a line of the active converter's section
convert_stream_add_line(line) ==
    /\ pc = "loop"
    /\ Len(read) < MaxLines
    /\ SECTION_RE(line) = None
    /\ converter # None
    /\ read' = Append(read, line)
    /\ converter' = <<[converter[1] EXCEPT !.tempfile = Append(@, line)]>>
    /\ UNCHANGED <<pc, first, section_name, version, fout, calls,
                   tempfiles, error, status>>

\* the version a matching line sets, whatever the section it stands in
NewVersion_AnySection(name, line, old) ==
    IF VERSION_RE(line) # None THEN TRIM_RE_sub(VERSION_RE(line)) ELSE old

\* lines 150-154: the version a line of the require section sets
NewVersion(name, line, old) ==
    IF name = <<"r","e","q","u","i","r","e">> /\ VERSION_RE(line) # None
    THEN TRIM_RE_sub(VERSION_RE(line))
    ELSE old

\* lines 149-155: a line outside any shader section
convert_stream_other(line) ==
    /\ pc = "loop"
    /\ Len(read) < MaxLines
    /\ SECTION_RE(line) = None
    /\ converter = None
    /\ read' = Append(read, line)
    /\ version' = NewVersion(section_name, line, version)
    /\ fout' = write(fout, line)
    /\ UNCHANGED <<pc, first, section_name, converter, calls, tempfiles,
                   error, status>>

\* the end of fin without lines 157-158: the open section is not finished
convert_stream_end_NoFinish(res) ==
    /\ pc = "loop"
    /\ pc' = "main"
    /\ UNCHANGED <<first, read, section_name, converter, version, fout,
                   calls, tempfiles, error, status>>

\* lines 157-158: the end of fin, and the return to the main loop
convert_stream_end(res) ==
    /\ pc = "loop"
    /\ LET fin == FinishActive(res)
       IN  /\ calls' = CallsAfter(res)
           /\ fout' = FoutAfter(fin)
           /\ tempfiles' = fin.temps
           /\ IF fin.outcome # "return"
              THEN pc' = "exit" /\ status' = 1 /\ error' = fin.outcome
              ELSE pc' = "main" /\ UNCHANGED <<status, error>>
    /\ UNCHANGED <<first, read, section_name, converter, version>>

Next ==
    \/ main_open
    \/ main_exit
    \/ \E line \in Lines, res \in ToolResults : convert_stream_section(line, res)
    \/ \E line \in Lines : convert_stream_add_line(line)
    \/ \E line \in Lines : convert_stream_other(line)
    \/ \E res \in ToolResults : convert_stream_end(res)

Spec == Init /\ [][Next]_vars

(***************************************************************************)
(* The encoder on its own: finish at the end of the input                  *)
(* "[fragment shader]\n", the tool answering with any binary of a valid    *)
(* magic word followed by up to MaxWords words.                            *)
(***************************************************************************)
EncoderWords == { <<248, 52, 86, 120>>, <<0, 0, 0, 10>> }

\* the concatenations of n words
RECURSIVE WordSeqs(_)
WordSeqs(n) ==
    IF n = 0 THEN { << >> }
    ELSE { t \o w : t \in WordSeqs(n - 1), w \in EncoderWords }

\* the binaries of a valid magic word and up to max words
EncoderData(max) ==
    UNION { { m \o t : t \in WordSeqs(n), m \in {MAGIC_BE, MAGIC_LE} } : n \in 0..max }

\* the state convert_stream is in after reading the line "[fragment shader]\n"
InitFinish ==
    /\ pc = "loop"
    /\ first = FALSE
    /\ read = <<FragmentHeader>>
    /\ section_name = SECTION_RE(FragmentHeader)
    /\ converter = <<Converter("glsl", "frag", "glslang", TARGET_ENV)>>
    /\ version = TARGET_ENV
    /\ fout = <<Written("header", BinaryHeader(SECTION_RE(FragmentHeader)))>>
    /\ calls = << >>
    /\ tempfiles = {"tempfile"}
    /\ error = ""
    /\ status = 0

\* (the guard stands first so that the binaries are drawn only where the
\* action can happen)
NextFinish ==
    /\ pc = "loop"
    /\ \E d \in EncoderData(MaxWords) :
           convert_stream_end([returncode |-> 0, data |-> d])

SpecFinish == InitFinish /\ [][NextFinish]_vars

(***************************************************************************)
(* The version extractor on its own: one more line of a require section,   *)
(* drawn from the lines made of "vulkan", a major, a minor and possibly a  *)
(* patch number with or without white space around every token.           *)
(***************************************************************************)
VersionSpacedDots == <<" "," "," ","v","u","l","k","a","n"," ","1"," ","."," "," ","2"," ","."," ","3"," "," "," ","\n">>

Gaps == { << >>, <<" ", "\t">> }

Numbers == { <<"1">>, <<"1", "2">> }

Patches == { << >>, <<".", "3">>, <<".", "1", "0">> }

\* the line with the gaps g[1] .. g[7] around its tokens; patch is "" or
\* a dot and a number, and g[6] then stands before that dot
VersionLine(g, major, minor, patch) ==
    g[1] \o vulkan \o g[2] \o major \o g[3] \o <<".">> \o g[4] \o minor
         \o g[5] \o (IF patch = << >> THEN << >> ELSE <<".">> \o g[6] \o Tail(patch))
         \o g[7] \o <<"\n">>

GapChoices == [1..7 -> Gaps]

VersionLines ==
    { VersionLine(g, <<"1">>, minor, patch) :
        g \in GapChoices, minor \in Numbers, patch \in Patches }
      \cup { VersionSpacedDots }

\* the state convert_stream is in after reading MaxLines - 1 lines "[require]\n"
InitVersion ==
    /\ pc = "loop"
    /\ first = FALSE
    /\ read = [i \in 1..(MaxLines - 1) |-> RequireHeader]
    /\ section_name = SECTION_RE(RequireHeader)
    /\ converter = None
    /\ version = TARGET_ENV
    /\ fout = [i \in 1..(MaxLines - 1) |-> Written("copy", RequireHeader)]
    /\ calls = << >>
    /\ tempfiles = {}
    /\ error = ""
    /\ status = 0

NextVersion ==
    /\ pc = "loop" /\ Len(read) < MaxLines
    /\ \E line \in VersionLines : convert_stream_other(line)

SpecVersion == InitVersion /\ [][NextVersion]_vars

(***************************************************************************)
(* The classifier on its own: the last line of a script, drawn from the    *)
(* lines made of an opening bracket with or without white space before it, *)
(* a name, with or without a closing bracket, and with or without text     *)
(* after it; read with a shader section open or with none.                 *)
(***************************************************************************)
BracketLeads == { << >>, <<" ">> }

BracketNames ==
    { << >>, <<"t","e","s","t">>, <<"a","]","b">>, <<"r","e","q","u","i","r","e">>,
      <<"f","r","a","g","m","e","n","t"," ","s","h","a","d","e","r">> }

BracketCloses == { << >>, <<"]">> }

BracketTrails == { << >>, <<" ">>, <<" ","x">> }

BracketLines ==
    { lead \o <<"[">> \o name \o close \o trail \o <<"\n">> :
        lead \in BracketLeads, name \in BracketNames,
        close \in BracketCloses, trail \in BracketTrails }

\* the states convert_stream is in after reading MaxLines - 1 lines
\* "[require]\n", the last of them or not replaced by "[fragment shader]\n"
InitBracket ==
    /\ pc = "loop"
    /\ first = FALSE
    /\ section_name \in { SECTION_RE(RequireHeader), SECTION_RE(FragmentHeader) }
    /\ LET open == section_name = SECTION_RE(FragmentHeader)
       IN  /\ read = [i \in 1..(MaxLines - 1) |->
                        IF open /\ i = MaxLines - 1 THEN FragmentHeader
                        ELSE RequireHeader]
           /\ converter = IF open
                          THEN <<Converter("glsl", "frag", "glslang", TARGET_ENV)>>
                          ELSE None
           /\ fout = [i \in 1..(MaxLines - 1) |->
                        IF open /\ i = MaxLines - 1
                        THEN Written("header", BinaryHeader(SECTION_RE(FragmentHeader)))
                        ELSE Written("copy", RequireHeader)]
           /\ tempfiles = IF open THEN {"tempfile"} ELSE {}
    /\ version = TARGET_ENV
    /\ calls = << >>
    /\ error = ""
    /\ status = 0

NextBracket ==
    /\ pc = "loop" /\ Len(read) < MaxLines
    /\ \/ \E line \in BracketLines, res \in ToolResults :
              convert_stream_section(line, res)
       \/ \E line \in BracketLines : convert_stream_add_line(line)
       \/ \E line \in BracketLines : convert_stream_other(line)

SpecBracket == InitBracket /\ [][NextBracket]_vars

(***************************************************************************)
(* Vocabulary of the properties.                                           *)
(***************************************************************************)
Last(s) == s[Len(s)]

Front(s) == SubSeq(s, 1, Len(s) - 1)

IsPrefix(p, s) == Len(p) <= Len(s) /\ SubSeq(s, 1, Len(p)) = p

KnownStages == DOMAIN STAGE_MAP

\* a section name that makes its section shader-bearing
ShaderBearing(name) ==
    \/ name \in KnownStages
    \/ /\ endswith(name, <<" ","s","p","i","r","v">>)
       /\ SubSeq(name, 1, Len(name) - 6) \in KnownStages

\* a section name with any " spirv" suffix removed
WithoutSpirv(name) ==
    IF endswith(name, <<" ","s","p","i","r","v">>)
    THEN SubSeq(name, 1, Len(name) - 6)
    ELSE name

\* the line is a section header of a shader-bearing section
ShaderHeader(line) ==
    LET name == SECTION_RE(line) IN name # None /\ ShaderBearing(name)

\* the run has been aborted
Aborted == pc = "exit" /\ status # 0

\* convert_stream has returned for the current input
Returned == pc = "main" /\ ~first

HeaderOf(stage) == <<"[">> \o stage \o <<" ","b","i","n","a","r","y","]","\n">>

\* the texts of the entries of fout of one kind, in order
RECURSIVE TextsOf(_, _)
TextsOf(f, kind) ==
    IF f = << >> THEN << >>
    ELSE IF f[1].kind = kind THEN <<f[1].text>> \o TextsOf(Tail(f), kind)
    ELSE TextsOf(Tail(f), kind)

RECURSIVE Concat(_)
Concat(ls) == IF ls = << >> THEN << >> ELSE ls[1] \o Concat(Tail(ls))

\* the pieces of text between the characters of seps, from position i on,
\* the piece in progress having begun at position start; empty pieces are
\* kept when keep_empty
RECURSIVE Pieces(_, _, _, _, _)
Pieces(text, seps, keep_empty, start, i) ==
    IF i > Len(text)
    THEN IF start <= Len(text) THEN <<SubSeq(text, start, Len(text))>> ELSE << >>
    ELSE IF text[i] \in seps
    THEN (IF start < i \/ keep_empty THEN <<SubSeq(text, start, i - 1)>> ELSE << >>)
         \o Pieces(text, seps, keep_empty, i + 1, i + 1)
    ELSE Pieces(text, seps, keep_empty, start, i + 1)

\* text.split(): the maximal runs of characters other than " " and "\n"
SplitWords(text) == Pieces(text, {" ", "\n"}, FALSE, 1, 1)

\* text.split("\n") without the empty piece after the last "\n"
SplitLines(text) == Pieces(text, {"\n"}, TRUE, 1, 1)

HexValue(c) == CHOOSE n \in 0..15 : HexDigits[n + 1] = c

\* int(token, 16) of a token of at most 8 hexadecimal digits, as the four
\* base-256 digits of the value
ParseWord(token) ==
    LET pad == 8 - Len(token)
        d   == [i \in 1..8 |-> IF i <= pad THEN 0 ELSE HexValue(token[i - pad])]
    IN  [k \in 1..4 |-> 16 * d[2 * k - 1] + d[2 * k]]

\* struct.pack(byte_order, value)
WriteWord(byte_order, value) ==
    IF byte_order = ">I" THEN value ELSE <<value[4], value[3], value[2], value[1]>>

\* the bytes that the tokens stand for, each written in byte_order
RECURSIVE Decode(_, _)
Decode(tokens, byte_order) ==
    IF tokens = << >> THEN << >>
    ELSE WriteWord(byte_order, ParseWord(tokens[1])) \o Decode(Tail(tokens), byte_order)

\* the byte order the first four bytes of a binary stand for
DetectedOrder(B) == IF SubSeq(B, 1, 4) = <<7, 35, 2, 3>> THEN ">I" ELSE "<I"

(***************************************************************************)
(* C1                                                                      *)
(***************************************************************************)
\* C1: whenever convert_stream reads a line that opens a shader-bearing
\* section and goes on (the finish of the section before it, if any,
\* returned), what it writes for the line is exactly "[<stage> binary]\n",
\* <stage> being the section name without any " spirv" suffix; before it only
\* the body of the section before it may have been written, and the line
\* itself is not copied.
C1_HeaderInPlaceOfLine ==
    [][ (/\ pc = "loop" /\ pc' = "loop"
         /\ Len(read') = Len(read) + 1
         /\ ShaderHeader(Last(read')))
        => /\ Last(fout') = Written("header",
                                    HeaderOf(WithoutSpirv(SECTION_RE(Last(read')))))
           /\ \/ Front(fout') = fout
              \/ /\ Front(Front(fout')) = fout
                 /\ Last(Front(fout')).kind = "body" ]_vars

\* a "[vertex shader spirv]" line has been replaced by "[vertex shader binary]"
C1_Witness ==
    /\ pc = "loop"
    /\ read # << >> /\ Last(read) = VertexSpirvHeader
    /\ Last(fout).text = <<"[","v","e","r","t","e","x"," ","s","h","a","d","e","r"," ","b","i","n","a","r","y","]","\n">>

(***************************************************************************)
(* C2                                                                      *)
(***************************************************************************)
\* C2 as stated: the input "[fragment shader]" / "void main(){}" with a
\* compiler that succeeds gives an output that begins with the line
\* "[fragment binary]".
C2_AsStated ==
    (/\ read = <<FragmentHeader, SourceLine>>
     /\ calls # << >> /\ calls[1].returncode = 0)
    => IsPrefix(<<"[","f","r","a","g","m","e","n","t"," ","b","i","n","a","r","y","]","\n">>,
                Text(fout))

\* C2 amended: with that input and a compiler that succeeds the output
\* begins with the line "[fragment shader binary]"; when convert_stream
\* returns, the rest of the output is the hex words that stand for the
\* compiler's output bytes, and when the binary is refused the header is all
\* the output.
C2_FragmentShaderBinary ==
    (/\ read = <<FragmentHeader, SourceLine>>
     /\ calls # << >> /\ calls[1].returncode = 0)
    => LET header == <<"[","f","r","a","g","m","e","n","t"," ","s","h","a","d","e","r"," ","b","i","n","a","r","y","]","\n">>
           rest   == Drop(Text(fout), Len(header) + 1)
       IN  /\ IsPrefix(header, Text(fout))
           /\ Returned => Decode(SplitWords(rest),
                                  DetectedOrder(calls[1].data)) = calls[1].data
           /\ Aborted => rest = << >>

\* the scenario has run to the end with a big-endian binary
C2_Witness ==
    /\ Returned
    /\ read = <<FragmentHeader, SourceLine>>
    /\ calls # << >> /\ calls[1].returncode = 0
    /\ calls[1].source = <<SourceLine>>
    /\ Text(fout) = <<"[","f","r","a","g","m","e","n","t"," ","s","h","a","d","e","r"," ","b","i","n","a","r","y","]","\n",
                      "7","2","3","0","2","0","3"," ","1","0","0","f","f","\n","\n">>

(***************************************************************************)
(* C3                                                                      *)
(***************************************************************************)
\* the script begins with "[require]", the given line and a shader-bearing
\* header, and the tool has been invoked for that section
RequireScenario(version_line) ==
    /\ Len(read) >= 3
    /\ read[1] = RequireHeader
    /\ read[2] = version_line
    /\ ShaderHeader(read[3])
    /\ calls # << >>

\* C3 as stated: after "[require]" and the body line "vulkan 1.2" the tool
\* for the following shader section is invoked with target-env "vulkan1.2".
C3_AsStated ==
    RequireScenario(VersionNoPatch)
    => calls[1].target_env = <<"v","u","l","k","a","n","1",".","2">>

\* C3 amended: after "[require]" and the body line "vulkan 1.2.0" (with a
\* patch component) the tool for the following shader section is invoked with
\* target-env "vulkan1.2"; the line "vulkan 1.2" (no patch component) does
\* not match and the tool is invoked with the default "vulkan1.0".
C3_PatchNeeded ==
    /\ RequireScenario(VersionPatch)
       => calls[1].target_env = <<"v","u","l","k","a","n","1",".","2">>
    /\ RequireScenario(VersionNoPatch)
       => calls[1].target_env = <<"v","u","l","k","a","n","1",".","0">>

\* the tool has been invoked with vulkan1.2 after "vulkan 1.2.0"
C3_Witness ==
    /\ RequireScenario(VersionPatch)
    /\ calls[1].target_env = <<"v","u","l","k","a","n","1",".","2">>

(***************************************************************************)
(* C4                                                                      *)
(***************************************************************************)
\* C4 as stated: the require-section line "   vulkan 1 .  2 . 3   " sets the
\* version to "vulkan1.2".
C4_AsStated ==
    (Len(read) = MaxLines /\ Last(read) = VersionSpacedDots)
    => version = <<"v","u","l","k","a","n","1",".","2">>

\* C4 amended: a require-section line made of "vulkan", a major, a minor and
\* a patch number with any white space before "vulkan", between "vulkan" and
\* the major number and after the patch number, and none around the two dots,
\* sets the version to exactly "vulkan<major>.<minor>"; a line with white
\* space next to a dot (as "   vulkan 1 .  2 . 3   "), or with no patch
\* number, leaves the version as it was.
C4_Normalized ==
    Len(read) = MaxLines
    => /\ \A g \in GapChoices, minor \in Numbers, patch \in Patches :
            Last(read) = VersionLine(g, <<"1">>, minor, patch)
            => version =
                 IF /\ patch # << >>
                    /\ g[3] = << >> /\ g[4] = << >> /\ g[5] = << >> /\ g[6] = << >>
                 THEN <<"v","u","l","k","a","n","1",".">> \o minor
                 ELSE <<"v","u","l","k","a","n","1",".","0">>
       /\ Last(read) = VersionSpacedDots
            => version = <<"v","u","l","k","a","n","1",".","0">>

\* the line " \tvulkan \t1.12.3 \t" has set the version to "vulkan1.12"
C4_Witness ==
    /\ Len(read) = MaxLines
    /\ Last(read) = <<" ","\t","v","u","l","k","a","n"," ","\t","1",".","1","2",".","3"," ","\t","\n">>
    /\ version = <<"v","u","l","k","a","n","1",".","1","2">>

(***************************************************************************)
(* C5                                                                      *)
(***************************************************************************)
\* the external tool invoked last has exited with a non-zero status
ToolFailed == calls # << >> /\ Last(calls).returncode # 0

\* C5 as stated: when the external tool exits with non-zero status the run
\* ends with non-zero status and the output holds nothing of that section,
\* neither its "[<stage> binary]" header nor a body.
C5_AsStated ==
    ToolFailed
    => /\ Aborted
       /\ fout = << >> \/ Last(fout).kind = "copy"

\* C5 amended: when the external tool exits with non-zero status the run ends
\* with non-zero status and the output holds no encoded body for that
\* section; its "[<stage> binary]" header, written when the section was
\* opened, is the last thing in the output.
C5_HeaderButNoBody ==
    ToolFailed
    => /\ Aborted
       /\ error = "CalledProcessError"
       /\ fout # << >>
       /\ Last(fout) = Written("header", HeaderOf(WithoutSpirv(section_name)))

\* the tool has failed although it left a whole binary behind
C5_Witness ==
    /\ ToolFailed
    /\ Last(calls).data # << >>
    /\ Aborted

(***************************************************************************)
(* C6                                                                      *)
(***************************************************************************)
\* the lines of the first n lines of a script that the claim calls neither a
\* shader-bearing header nor a body line of a shader-bearing section, in
\* order, from line i on; in_shader says that the last header before line i
\* was shader-bearing
RECURSIVE OtherLines(_, _, _, _)
OtherLines(script, n, i, in_shader) ==
    IF i > n THEN << >>
    ELSE LET name == SECTION_RE(script[i])
         IN  IF name = None
             THEN IF in_shader THEN OtherLines(script, n, i + 1, TRUE)
                  ELSE <<script[i]>> \o OtherLines(script, n, i + 1, FALSE)
             ELSE IF ShaderBearing(name)
             THEN OtherLines(script, n, i + 1, TRUE)
             ELSE <<script[i]>> \o OtherLines(script, n, i + 1, FALSE)

\* the line is a header whose name ends in " spirv" without being a stage
\* name followed by " spirv"
UnknownSpirv(line) ==
    LET name == SECTION_RE(line)
    IN  /\ name # None
        /\ endswith(name, <<" ","s","p","i","r","v">>)
        /\ ~ShaderBearing(name)

NoShaderHeader(script) == \A i \in DOMAIN script : ~ShaderHeader(script[i])

NoUnknownSpirv(script) == \A i \in DOMAIN script : ~UnknownSpirv(script[i])

\* C6 as stated, in its particular case: once the run is over, a script with
\* no shader-bearing section has been reproduced identically.
C6_AsStated ==
    ((Returned \/ pc = "exit") /\ NoShaderHeader(read))
    => Text(fout) = Concat(read)

\* C6 amended: the lines copied to the output are, unchanged, once each and
\* in input order, the lines read that are neither a shader-bearing header
\* nor a body line of a shader-bearing section: all of them in a run that is
\* not aborted, the first of them in a run that is.  A header whose name ends
\* in " spirv" with no stage name before it is not copied: it aborts the
\* run.  A script with no shader-bearing section and no such header is
\* reproduced identically.
C6_OtherLinesCopied ==
    LET copies == TextsOf(fout, "copy")
        others == OtherLines(read, Len(read), 1, FALSE)
    IN  /\ IF ~Aborted THEN copies = others
           ELSE /\ IsPrefix(copies, others)
                /\ (error = "KeyError" /\ UnknownSpirv(Last(read)))
                   => copies = OtherLines(read, Len(read) - 1, 1, FALSE)
        /\ ((Returned \/ pc = "exit") /\ NoShaderHeader(read) /\ NoUnknownSpirv(read))
           => /\ ~Aborted
              /\ Text(fout) = Concat(read)

\* a script of a require section, a shader section and another section has
\* been converted: the two other lines were copied, around the header and the
\* body of the binary section
C6_Witness ==
    /\ Returned
    /\ read = <<RequireHeader, FragmentHeader, TestHeader>>
    /\ TextsOf(fout, "copy") = <<RequireHeader, TestHeader>>
    /\ Len(fout) = 4

(***************************************************************************)
(* C7                                                                      *)
(***************************************************************************)
\* the lines of the body that finish wrote last, without their terminators
BodyLines == SplitLines(Last(fout).text)

\* the first token of a line of hex words
FirstToken(line) == SplitWords(line)[1]

\* C7: no line of the hex words that finish writes is longer than 80
\* characters: the line is broken before every token that, with its
\* separating space, would make it longer; and it is broken only there.
C7_AtMost80 ==
    (Returned /\ Last(fout).kind = "body")
    => /\ \A i \in DOMAIN BodyLines : Len(BodyLines[i]) <= 80
       /\ \A i \in DOMAIN BodyLines :
            (i > 1 /\ BodyLines[i] # << >>)
            => Len(BodyLines[i - 1]) + 1 + Len(FirstToken(BodyLines[i])) > 80

\* a line of exactly 80 characters has been written, and a line after it
C7_Witness ==
    /\ Returned /\ Last(fout).kind = "body"
    /\ Len(BodyLines) >= 3
    /\ Len(BodyLines[1]) = 80
    /\ BodyLines[2] # << >>

(***************************************************************************)
(* C8                                                                      *)
(***************************************************************************)
\* C8: for every binary B of a valid magic word and a length that is a
\* positive multiple of 4, the body finish writes splits into len(B)/4
\* tokens, and the tokens, read as hexadecimal words and written back in the
\* byte order the magic word stands for, are B.
C8_RoundTrip ==
    (Returned /\ Last(fout).kind = "body")
    => LET B      == Last(calls).data
           tokens == SplitWords(Last(fout).text)
       IN  /\ Len(tokens) * 4 = Len(B)
           /\ \A i \in DOMAIN tokens : Len(tokens[i]) \in 1..8
           /\ Decode(tokens, DetectedOrder(B)) = B

\* a little-endian binary of MaxWords + 1 words has been written on more
\* than one line
C8_Witness ==
    /\ Returned /\ Last(fout).kind = "body"
    /\ Len(Last(calls).data) = 4 * (MaxWords + 1)
    /\ SubSeq(Last(calls).data, 1, 4) = <<3, 2, 35, 7>>
    /\ Len(SplitLines(Last(fout).text)) >= 3

(***************************************************************************)
(* C9                                                                      *)
(***************************************************************************)
\* the length is 0, less than 4 or no multiple of 4
BadLength(B) == Len(B) = 0 \/ Len(B) < 4 \/ Len(B) % 4 # 0

\* C9: when the external tool succeeds with a binary of a bad length, finish
\* ends the run with the invalid-size error and a non-zero status and has
\* written no hex word: the section's header is the last thing in the output.
C9_InvalidSize ==
    \A i \in DOMAIN calls :
        (calls[i].returncode = 0 /\ BadLength(calls[i].data))
        => /\ i = Len(calls)
           /\ Aborted
           /\ error = "invalid size"
           /\ Len(TextsOf(fout, "body")) = i - 1
           /\ Last(fout).kind = "header"

\* binaries of 0, 3 and 5 bytes
C9_Witness ==
    /\ Aborted /\ error = "invalid size"
    /\ Len(calls) = 2
    /\ Len(Last(calls).data) = 5
    /\ Len(TextsOf(fout, "body")) = 1

(***************************************************************************)
(* C10                                                                     *)
(***************************************************************************)
\* the word of a binary at a 1-based index, its bytes in file order
WordAt(B, k) == SubSeq(B, 4 * k - 3, 4 * k)

\* C10: for a binary of valid length, the first four bytes read big-endian
\* decide: 0x07230203 has every word printed as read big-endian, 0x03022307
\* has every word, the first too, printed as read little-endian, and any
\* other value ends the run with the invalid-magic-number error and a
\* non-zero status before a hex word is written.
C10_MagicSelectsOrder ==
    LET bodies == TextsOf(fout, "body")
    IN  \A i \in DOMAIN calls :
            (calls[i].returncode = 0 /\ ~BadLength(calls[i].data))
            => LET B == calls[i].data
               IN  IF WordAt(B, 1) = <<7, 35, 2, 3>>
                   THEN /\ i <= Len(bodies)
                        /\ LET tokens == SplitWords(bodies[i])
                           IN  /\ Len(tokens) * 4 = Len(B)
                               /\ \A k \in DOMAIN tokens :
                                    ParseWord(tokens[k]) = WordAt(B, k)
                   ELSE IF WordAt(B, 1) = <<3, 2, 35, 7>>
                   THEN /\ i <= Len(bodies)
                        /\ LET tokens == SplitWords(bodies[i])
                           IN  /\ Len(tokens) * 4 = Len(B)
                               /\ \A k \in DOMAIN tokens :
                                    ParseWord(tokens[k]) =
                                      <<WordAt(B, k)[4], WordAt(B, k)[3],
                                        WordAt(B, k)[2], WordAt(B, k)[1]>>
                   ELSE /\ i = Len(calls)
                        /\ Aborted
                        /\ error = "invalid magic number"
                        /\ Len(bodies) = i - 1
                        /\ Last(fout).kind = "header"

\* the bytes 03 02 23 07 00 01 00 ff have been printed as 7230203 ff000100
C10_Witness ==
    /\ calls # << >>
    /\ Last(calls).data = <<3, 2, 35, 7, 0, 1, 0, 255>>
    /\ Last(fout) = Written("body", <<"7","2","3","0","2","0","3"," ",
                                      "f","f","0","0","0","1","0","0","\n","\n">>)

\* a wrong magic number has ended the run
C10_WitnessInvalid ==
    /\ Aborted /\ error = "invalid magic number"
    /\ Last(calls).data = <<1, 2, 3, 4>>

(***************************************************************************)
(* C11                                                                     *)
(***************************************************************************)
\* C11 as stated: in no terminal state of the run is a temporary file of a
\* conversion left unreleased, whatever way the conversion ended
C11_AsStated == pc = "exit" => tempfiles = {}

(***************************************************************************)
(* C12                                                                     *)
(***************************************************************************)
Base64Alphabet ==
    <<"A","B","C","D","E","F","G","H","I","J","K","L","M","N","O","P",
      "Q","R","S","T","U","V","W","X","Y","Z","a","b","c","d","e","f",
      "g","h","i","j","k","l","m","n","o","p","q","r","s","t","u","v",
      "w","x","y","z","0","1","2","3","4","5","6","7","8","9","+","/">>

\* the standard base64 text of the bytes of data from position i on
RECURSIVE Base64(_, _)
Base64(data, i) ==
    IF i > Len(data) THEN << >>
    ELSE LET n  == Len(data) - i + 1
             b2 == IF n >= 2 THEN data[i + 1] ELSE 0
             b3 == IF n >= 3 THEN data[i + 2] ELSE 0
             v  == data[i] * 65536 + b2 * 256 + b3
         IN  << Base64Alphabet[(v \div 262144) + 1],
                Base64Alphabet[((v \div 4096) % 64) + 1],
                IF n >= 2 THEN Base64Alphabet[((v \div 64) % 64) + 1] ELSE "=",
                IF n >= 3 THEN Base64Alphabet[(v % 64) + 1] ELSE "=" >>
             \o Base64(data, i + 3)

\* the bodies written for the current input, in order; the k-th is the body
\* of the k-th invocation (a body is written only when finish returns, and
\* the run goes on only then)
Bodies == TextsOf(fout, "body")

\* the number of places at which text holds two "\n" in a row
BlankLines(text) ==
    Cardinality({ i \in 1..(Len(text) - 1) : text[i] = "\n" /\ text[i + 1] = "\n" })

NumShaderHeaders(script) ==
    Cardinality({ i \in DOMAIN script : ShaderHeader(script[i]) })

\* stands for the body of a section in an outline
BodyMark == [kind |-> "body", text |-> << >>]

\* fout with every body replaced by the mark of a body
Outlined(f) == [i \in DOMAIN f |-> IF f[i].kind = "body" THEN BodyMark ELSE f[i]]

\* what the sections of the lines i..n of a script give in the order of the
\* input: for a shader-bearing section its "[<stage> binary]" header and then
\* its body, for every other header and for every line outside the
\* shader-bearing sections the line itself; in_shader says that the section
\* before line i is shader-bearing, and its body then comes first
RECURSIVE Outline(_, _, _, _)
Outline(script, n, i, in_shader) ==
    IF i > n THEN (IF in_shader THEN <<BodyMark>> ELSE << >>)
    ELSE LET name == SECTION_RE(script[i])
         IN  IF name = None
             THEN IF in_shader THEN Outline(script, n, i + 1, TRUE)
                  ELSE <<[kind |-> "copy", text |-> script[i]]>>
                       \o Outline(script, n, i + 1, FALSE)
             ELSE (IF in_shader THEN <<BodyMark>> ELSE << >>)
                  \o (IF ShaderBearing(name)
                      THEN <<[kind |-> "header", text |-> HeaderOf(WithoutSpirv(name))]>>
                           \o Outline(script, n, i + 1, TRUE)
                      ELSE <<[kind |-> "copy", text |-> script[i]]>>
                           \o Outline(script, n, i + 1, FALSE))

\* a converter has been created and not finished
Pending == pc = "loop" /\ converter # None

\* in a run that has not aborted, the output is the outline of the lines read,
\* short of the body of the section that is still open, and every
\* shader-bearing section but the open one has been finished once
InOrder ==
    (pc = "loop" \/ Returned) =>
        /\ Outlined(fout) \o (IF Pending THEN <<BodyMark>> ELSE << >>)
             = Outline(read, Len(read), 1, FALSE)
        /\ Len(calls) + (IF Pending THEN 1 ELSE 0) = NumShaderHeaders(read)
        /\ Len(Bodies) = Len(calls)
        /\ Returned => tempfiles = {} /\ Len(calls) = NumShaderHeaders(read)

\* the step reads a line that matches the section-header pattern
ReadsHeader ==
    /\ Len(read') = Len(read) + 1
    /\ Front(read') = read
    /\ SECTION_RE(Last(read')) # None

\* the step is the end of the input
EndsInput == pc = "loop" /\ pc' # "loop" /\ read' = read

\* C13: a converter is finished (an external tool is run for it) at the next
\* line that matches the section-header pattern or at the end of the input,
\* there and nowhere else, and once; and in every run that has not aborted
\* the body of each finished section stands right after its own
\* "[<stage> binary]" header and before anything written for the sections
\* after it, the sections come in the order of the input, every
\* shader-bearing section has been finished exactly once when convert_stream
\* returns and none is left open
C13_FinishedOnceInOrder ==
    /\ []InOrder
    /\ [][ /\ Len(calls') > Len(calls) =>
                 /\ Len(calls') = Len(calls) + 1
                 /\ Pending
                 /\ ReadsHeader \/ EndsInput
           /\ Pending /\ (ReadsHeader \/ EndsInput) =>
                 Len(calls') = Len(calls) + 1 ]_vars

\* convert_stream has returned from a script of two shader-bearing sections,
\* the first finished at the header of the second, the second at the end
C13_Witness ==
    /\ Returned
    /\ read = <<FragmentHeader, VertexSpirvHeader, SourceLine>>
    /\ Len(calls) = 2
    /\ Len(fout) = 4
    /\ fout[2].kind = "body" /\ fout[4].kind = "body"

(***************************************************************************)
(* C14                                                                     *)
(***************************************************************************)
\* C14: once an external tool has exited non-zero the run is over with a
\* non-zero status: the step that made the failed invocation wrote nothing
\* and read at most the header line that caused it, and no step follows it
\* (no second invocation for the section, no line read or written, no other
\* invocation, no next input opened); every invocation before it had
\* exited with zero
C14_AbortsAtOnce ==
    /\ [](/\ ToolFailed => pc = "exit" /\ status # 0 /\ error = "CalledProcessError"
          /\ \A k \in 1..(Len(calls) - 1) : calls[k].returncode = 0)
    /\ [][ /\ ~ToolFailed
           /\ ToolFailed' =>
                 /\ Len(calls') = Len(calls) + 1
                 /\ fout' = fout
                 /\ read' = read \/ (ReadsHeader /\ Front(read') = read) ]_vars

\* the second section's tool has failed at the third line, after the first
\* section's body had been written
C14_Witness ==
    /\ ToolFailed
    /\ Len(calls) = 2
    /\ read = <<FragmentHeader, VertexSpirvHeader, FragmentHeader>>
    /\ Len(fout) = 3 /\ fout[2].kind = "body" /\ fout[3].kind = "header"
    /\ pc = "exit"

(***************************************************************************)
(* C15                                                                     *)
(***************************************************************************)
\* the six stage names, written out
SixStageNames ==
    { <<"v","e","r","t","e","x"," ","s","h","a","d","e","r">>,
      <<"t","e","s","s","e","l","l","a","t","i","o","n"," ","c","o","n","t","r","o","l"," ","s","h","a","d","e","r">>,
      <<"t","e","s","s","e","l","l","a","t","i","o","n"," ","e","v","a","l","u","a","t","i","o","n"," ","s","h","a","d","e","r">>,
      <<"g","e","o","m","e","t","r","y"," ","s","h","a","d","e","r">>,
      <<"f","r","a","g","m","e","n","t"," ","s","h","a","d","e","r">>,
      <<"c","o","m","p","u","t","e"," ","s","h","a","d","e","r">> }

SpirvEnding == <<" ","s","p","i","r","v">>

\* the name ends in " spirv" and what stands before that is no stage name
UnknownSpirvName(name) ==
    /\ Len(name) >= 6
    /\ SubSeq(name, Len(name) - 5, Len(name)) = SpirvEnding
    /\ SubSeq(name, 1, Len(name) - 6) \notin SixStageNames

\* the name is no stage name and does not end in " spirv"
PlainName(name) ==
    /\ name \notin SixStageNames
    /\ ~(Len(name) >= 6 /\ SubSeq(name, Len(name) - 5, Len(name)) = SpirvEnding)

\* the ways the finish of a section can abort the run
FinishErrors == {"CalledProcessError", "invalid size", "invalid magic number"}

\* C15: reading a header whose name ends in " spirv" with no stage name
\* before it ("[require spirv]", "[ spirv]") ends the run with a non-zero
\* status; nothing is written for the line, neither a "[... binary]" header
\* nor a copy (at most the body of the section before it), and no line after
\* it is processed.  Reading a header whose name is no stage name and does
\* not end in " spirv" is no error: the line is copied to the output and the
\* run goes on, unless a section was open before it and the finish of that
\* section aborts the run
C15_UnknownSpirvFatal ==
    /\ [](\A i \in DOMAIN read :
              SECTION_RE(read[i]) # None /\ UnknownSpirvName(SECTION_RE(read[i]))
                  => i = Len(read) /\ pc = "exit" /\ status # 0)
    /\ [][ pc = "loop" /\ ReadsHeader =>
             LET line == Last(read')
                 name == SECTION_RE(line)
             IN  /\ UnknownSpirvName(name) =>
                       /\ pc' = "exit" /\ status' # 0
                       /\ \/ fout' = fout
                          \/ /\ Pending
                             /\ Front(fout') = fout
                             /\ Last(fout').kind = "body"
                       /\ ~Pending => error' = "KeyError"
                 /\ PlainName(name) =>
                       IF pc' = "loop"
                       THEN /\ fout' # << >>
                            /\ Last(fout') = [kind |-> "copy", text |-> line]
                            /\ Len(fout') = Len(fout) + (IF Pending THEN 2 ELSE 1)
                            /\ error' = "" /\ converter' = None
                       ELSE /\ Pending
                            /\ error' \in FinishErrors
                            /\ fout' = fout ]_vars

\* the run has ended at "[ spirv]", read after a section whose body was
\* written
C15_Witness ==
    /\ Aborted /\ error = "KeyError"
    /\ read = <<FragmentHeader, BareSpirvHeader>>
    /\ Len(fout) = 2 /\ fout[2].kind = "body"

\* the run has ended at "[require spirv]", the first line of the script
C15_WitnessRequire ==
    /\ Aborted /\ error = "KeyError"
    /\ read = <<UnknownSpirvHeader>>
    /\ fout = << >>

(***************************************************************************)
(* C16                                                                     *)
(***************************************************************************)
\* the line is "[", a name of one character or more none of which is "]",
\* "]" and then white space only
WholeLineHeader(line) ==
    /\ Len(line) >= 3
    /\ line[1] = "["
    /\ \E k \in 3..Len(line) :
          /\ line[k] = "]"
          /\ \A j \in 2..(k - 1) : line[j] # "]"
          /\ \A j \in (k + 1)..Len(line) : line[j] \in {" ", "\t", "\n"}

\* the step reads one more line
ReadsLine == Len(read') = Len(read) + 1 /\ Front(read') = read

\* C16: reading a line that is not of the form "[" name "]" white-space
\* (no closing bracket, an empty name, white space before the "[", text
\* after the "]", a "]" inside the name) is never an error and opens no
\* section: the run goes on, the section name stays, no converter is
\* finished and no external tool is run; with a converter open the line is
\* appended to its buffer and nothing is written, with none open the line is
\* copied to the output unchanged
C16_MalformedIsText ==
    [][ pc = "loop" /\ ReadsLine /\ ~WholeLineHeader(Last(read')) =>
          LET line == Last(read')
          IN  /\ pc' = "loop" /\ error' = "" /\ status' = 0
              /\ section_name' = section_name
              /\ calls' = calls
              /\ tempfiles' = tempfiles
              /\ IF converter # None
                 THEN /\ converter' # None
                      /\ converter'[1].tempfile = Append(converter[1].tempfile, line)
                      /\ [converter'[1] EXCEPT !.tempfile = << >>]
                           = [converter[1] EXCEPT !.tempfile = << >>]
                      /\ fout' = fout
                 ELSE /\ converter' = None
                      /\ fout' = Append(fout, [kind |-> "copy", text |-> line]) ]_vars

\* "[fragment shader] x\n" has been read with a shader section open and is in
\* the buffer of its converter
C16_Witness ==
    /\ pc = "loop"
    /\ Len(read) = MaxLines
    /\ Last(read) = <<"[","f","r","a","g","m","e","n","t"," ","s","h","a","d","e","r","]"," ","x","\n">>
    /\ converter # None
    /\ converter[1].tempfile = <<Last(read)>>
    /\ calls = << >>

\* "[]\n" has been read with no section open and copied
C16_WitnessEmptyName ==
    /\ pc = "loop"
    /\ Len(read) = MaxLines
    /\ Last(read) = <<"[","]","\n">>
    /\ converter = None
    /\ Last(fout) = [kind |-> "copy", text |-> <<"[","]","\n">>]

(***************************************************************************)
(* C17                                                                     *)
(***************************************************************************)
\* the index of the last header among the lines before line i, 0 if none
HeaderBefore(script, i) ==
    LET hs == { j \in 1..(i - 1) : SECTION_RE(script[j]) # None }
    IN  IF hs = {} THEN 0 ELSE CHOOSE j \in hs : \A h \in hs : h <= j

\* line i is a line of a section named "require" that declares a version
DeclaresVersion(script, i) ==
    /\ SECTION_RE(script[i]) = None
    /\ HeaderBefore(script, i) # 0
    /\ SECTION_RE(script[HeaderBefore(script, i)]) = <<"r","e","q","u","i","r","e">>
    /\ VERSION_RE(script[i]) # None

\* the target version the lines before line h give: that of the last line
\* before h that declares one, "vulkan1.0" if there is none
VersionBefore(script, h) ==
    LET ds == { i \in 1..(h - 1) : DeclaresVersion(script, i) }
    IN  IF ds = {} THEN <<"v","u","l","k","a","n","1",".","0">>
        ELSE LET i == CHOOSE j \in ds : \A d \in ds : d <= j
             IN  SelectSeq(VERSION_RE(script[i]), LAMBDA c : c \notin {" ", "\t", "\n"})

\* the index of the k-th line of a script that opens a shader-bearing section
NthShaderHeader(script, k) ==
    CHOOSE i \in DOMAIN script :
        /\ ShaderHeader(script[i])
        /\ Cardinality({ j \in 1..i : ShaderHeader(script[j]) }) = k

\* C17: the target environment given to the external tool for a
\* shader-bearing section is the target version as the lines before the
\* section's header give it: the one of the last matching line of a require
\* section before the header, "vulkan1.0" if there is none; no line after the
\* header has a part in it
C17_TargetAtHeader ==
    /\ Len(calls) <= NumShaderHeaders(read)
    /\ \A k \in DOMAIN calls :
          calls[k].target_env = VersionBefore(read, NthShaderHeader(read, k))

\* a section opened after "vulkan 1.2.0" in a require section has been
\* compiled for vulkan1.2
C17_Witness ==
    /\ Returned
    /\ read = <<RequireHeader, VersionPatch, FragmentHeader>>
    /\ Len(calls) = 1
    /\ calls[1].target_env = <<"v","u","l","k","a","n","1",".","2">>

\* a section compiled for vulkan1.0 while the require section after it has
\* set vulkan1.2
C17_WitnessLater ==
    /\ pc = "loop"
    /\ read = <<FragmentHeader, RequireHeader, VersionPatch>>
    /\ calls[1].target_env = <<"v","u","l","k","a","n","1",".","0">>
    /\ version = <<"v","u","l","k","a","n","1",".","2">>

(***************************************************************************)
(* C18                                                                     *)
(***************************************************************************)
\* the token of each of the six stage names, written out
StageToken(name) ==
    CASE name = <<"v","e","r","t","e","x"," ","s","h","a","d","e","r">> -> "vert"
      [] name = <<"t","e","s","s","e","l","l","a","t","i","o","n"," ","c","o","n","t","r","o","l"," ","s","h","a","d","e","r">> -> "tesc"
      [] name = <<"t","e","s","s","e","l","l","a","t","i","o","n"," ","e","v","a","l","u","a","t","i","o","n"," ","s","h","a","d","e","r">> -> "tese"
      [] name = <<"g","e","o","m","e","t","r","y"," ","s","h","a","d","e","r">> -> "geom"
      [] name = <<"f","r","a","g","m","e","n","t"," ","s","h","a","d","e","r">> -> "frag"
      [] name = <<"c","o","m","p","u","t","e"," ","s","h","a","d","e","r">> -> "comp"
      [] OTHER -> "none"

\* C18: the external invocations of a run are, in order, one for each
\* shader-bearing section that has been finished, none for the one still
\* open and none for any other section; the one of a section named by a
\* stage name runs the source compiler with -S and that stage's token, the
\* one of a section named "<stage> spirv" runs the assembler, without -S;
\* both are given the target version that stood at the section's header; the
\* mapping has the six stage names and their tokens and nothing else
C18_OneToolPerSection ==
    /\ Len(calls) <= NumShaderHeaders(read)
    /\ (pc = "loop" \/ Returned) =>
          Len(calls) = NumShaderHeaders(read) - (IF Pending THEN 1 ELSE 0)
    /\ DOMAIN STAGE_MAP = SixStageNames /\ Cardinality(SixStageNames) = 6
    /\ \A name \in SixStageNames : STAGE_MAP[name] = StageToken(name)
    /\ \A k \in DOMAIN calls :
          LET h    == NthShaderHeader(read, k)
              name == SECTION_RE(read[h])
          IN  /\ IF name \in SixStageNames
                 THEN /\ calls[k].binary = "glslang"
                      /\ calls[k].S = StageToken(name)
                 ELSE /\ SubSeq(name, 1, Len(name) - 6) \in SixStageNames
                      /\ calls[k].binary = "spirv_as"
                      /\ calls[k].S = ""
              /\ calls[k].target_env = VersionBefore(read, h)

\* convert_stream has returned after compiling a fragment shader and
\* assembling a vertex shader
C18_Witness ==
    /\ Returned
    /\ read = <<FragmentHeader, SourceLine, VertexSpirvHeader>>
    /\ Len(calls) = 2
    /\ calls[1].binary = "glslang" /\ calls[1].S = "frag"
    /\ calls[2].binary = "spirv_as" /\ calls[2].S = ""

\* convert_stream has returned from a script without shaders, and no tool
\* has been run
C18_WitnessNone ==
    /\ Returned
    /\ read = <<RequireHeader, VersionPatch, TestHeader>>
    /\ calls = << >>

(***************************************************************************)
(* C19                                                                     *)
(***************************************************************************)
Vulkan10 == <<"v","u","l","k","a","n","1",".","0">>

\* C19: the target version changes only when convert_stream starts on an
\* input, where it becomes "vulkan1.0", and when a line that is no header,
\* matches the version pattern and stands in a section named exactly
\* "require" is read; no other step changes it: no header line, no line
\* before the first header, no line of another section, no line of a
\* shader-bearing section.  At every point it is the value of the last such
\* line of what has been read of the current input, "vulkan1.0" if there is
\* none
C19_VersionFrame ==
    /\ [](version = VersionBefore(read, Len(read) + 1))
    /\ [][ /\ pc = "main" /\ pc' = "loop" => version' = Vulkan10
           /\ version' # version =>
                 \/ pc = "main" /\ pc' = "loop"
                 \/ /\ pc = "loop" /\ ReadsLine
                    /\ SECTION_RE(Last(read')) = None
                    /\ VERSION_RE(Last(read')) # None
                    /\ converter = None
                    /\ section_name = <<"r","e","q","u","i","r","e">> ]_vars

\* convert_stream has returned with the target version at vulkan1.2, the
\* next input still to open
C19_Witness ==
    /\ Returned
    /\ read = <<RequireHeader, VersionPatch, TestHeader>>
    /\ version = <<"v","u","l","k","a","n","1",".","2">>

\* lines that look like a version declaration before the first header and
\* in a shader section have left the target version at vulkan1.0
C19_WitnessUnchanged ==
    /\ pc = "loop"
    /\ read = <<VersionPatch, FragmentHeader, VersionPatch>>
    /\ version = Vulkan10

(***************************************************************************)
(* C20                                                                     *)
(***************************************************************************)
\* the lines of the section that line h of a script opens: those after h up
\* to the next header or the end
SectionBody(script, h) ==
    LET hs   == { j \in (h + 1)..Len(script) : SECTION_RE(script[j]) # None }
        next == IF hs = {} THEN Len(script) + 1
                ELSE CHOOSE j \in hs : \A i \in hs : j <= i
    IN  SubSeq(script, h + 1, next - 1)

\* C20: there is never more than one converter, and while lines are read one
\* is open exactly when the last header read opens a shader-bearing section;
\* its buffer then holds the lines read since that header, as they were read
\* and in their order; reading a line that is no header while it is open
\* writes nothing, runs no tool and leaves the target version alone; and the
\* source every external tool is given is the lines of its section, in the
\* order of the input
C20_OneConverterBuffers ==
    /\ [](/\ Len(converter) <= 1 /\ Cardinality(tempfiles) <= 1
          /\ pc = "loop" =>
                LET h == HeaderBefore(read, Len(read) + 1)
                IN  /\ converter # None <=> (h # 0 /\ ShaderHeader(read[h]))
                    /\ converter # None =>
                          /\ converter[1].tempfile = SubSeq(read, h + 1, Len(read))
                          /\ tempfiles = {"tempfile"}
          /\ \A k \in DOMAIN calls :
                calls[k].source = SectionBody(read, NthShaderHeader(read, k)))
    /\ [][ pc = "loop" /\ converter # None /\ ReadsLine
              /\ SECTION_RE(Last(read')) = None =>
                 /\ fout' = fout
                 /\ version' = version
                 /\ calls' = calls
                 /\ pc' = "loop" ]_vars

\* the compiler has been given the two lines of a fragment shader, the second
\* of which looks like a version declaration, and neither is in the output
C20_Witness ==
    /\ Returned
    /\ read = <<FragmentHeader, SourceLine, VersionPatch>>
    /\ Len(calls) = 1
    /\ calls[1].source = <<SourceLine, VersionPatch>>
    /\ calls[1].target_env = Vulkan10
    /\ Len(fout) = 2

\* a converter is open with one line in its buffer
C20_WitnessOpen ==
    /\ pc = "loop"
    /\ read = <<TestHeader, VertexSpirvHeader, UnbalancedLine>>
    /\ converter # None
    /\ converter[1].tempfile = <<UnbalancedLine>>

====
